---- MODULE Spec2Model ----
(***************************************************************************)
(* Model of components/script/dom/gpubuffer.rs: the GPUBuffer mapping      *)
(* state machine, its map_info / map_promise fields, the array-buffer      *)
(* views handed out by GetMappedRange, the messages sent on the WebGPU     *)
(* channel and the promises returned by MapAsync; of                       *)
(* components/script/dom/performance.rs: the performance entry buffer, the *)
(* observer notification task and the resource timing buffer; and of       *)
(* components/script/dom/cssstylesheet.rs: the origin-clean check of the   *)
(* CSSOM rule list operations.                                             *)
(***************************************************************************)
EXTENDS Integers, Sequences, FiniteSets, TLC

(* ---- bounds ---------------------------------------------------------- *)
\* the `size` field of the modelled buffer (bytes)
BufSize == 16
\* number of map requests sent in a behaviour
MaxPromises == 2
\* number of array buffers GetMappedRange may hand out in a behaviour
MaxViews == 2
\* width in bits of GPUSize64 in the model (64 in the program)
GPUSize64Bits == 5
\* number of entries the performance entry buffer holds in a behaviour
MaxEntries == 2
\* largest value of the clock read by Performance::now
MaxNow == 1
\* resource_timing_buffer_size_limit of a new Performance (250 in the program)
InitialSizeLimit == 1
\* number of rules a stylesheet holds in a behaviour
MaxRules == 3

(* ---- program constants ----------------------------------------------- *)
RANGE_OFFSET_ALIGN_MASK == 8
RANGE_SIZE_ALIGN_MASK == 4
READ == 1
WRITE == 2

(* ---- Option<T> as a sequence of length <= 1 --------------------------- *)
None == <<>>
Some(x) == <<x>>

GPUBufferState == {"Mapped", "MappedAtCreation", "MappingPending", "Unmapped", "Destroyed"}

VARIABLES
    state,          \* GPUBuffer.state
    map_info,       \* GPUBuffer.map_info : Option<GPUBufferMapInfo>
    map_promise,    \* GPUBuffer.map_promise : Option<promise id>
    promises,       \* the promise of every map request that was sent, by id
    views,          \* every array buffer GetMappedRange created, by id: whether it
                    \* is still attached, and whether its storage was freed under it
    sent,           \* the sends the last call attempted on GPUBuffer.channel, in order
    scope_errors,   \* the validation errors the last call handed to device.handle_server_msg
    destroy_sent,   \* number of DestroyBuffer sends attempted so far
    channel_ok,     \* whether the receiving end of the channel still exists
    inflight,       \* map requests sent whose response is not yet handled
    panicked,       \* a handler panicked (unwrap on None, slice out of range)
    dropped,        \* the GPUBuffer object has been dropped
    last,           \* the last call made and what it returned
    buffer,         \* Performance.buffer.entries
    observers,      \* Performance.observers
    pending_notification_observers_task,
                    \* Performance.pending_notification_observers_task
    notifications,  \* notification tasks queued on the performance timeline
                    \* task source and not yet run
    resource_timing_buffer_size_limit,
    resource_timing_buffer_current_size,
    resource_timing_buffer_pending_full_event,
    resource_timing_secondary_entries,
                    \* the four resource timing fields of Performance
    now,            \* the clock Performance::now reads
    frame,          \* where the running queue_entry call is, and its locals
    origin_clean,   \* CSSStyleSheet.origin_clean
    rulelist,       \* CSSStyleSheet.rulelist : Option<CSSRuleList>
    rules           \* style_stylesheet.contents.rules, which the rule list shares

\* the fields of the GPUBuffer, of the Performance and of the CSSStyleSheet
gpu_vars == <<state, map_info, map_promise, promises, views, sent, scope_errors,
              destroy_sent, channel_ok, inflight, panicked, dropped>>

perf_vars == <<buffer, observers, pending_notification_observers_task,
               notifications, resource_timing_buffer_size_limit,
               resource_timing_buffer_current_size,
               resource_timing_buffer_pending_full_event,
               resource_timing_secondary_entries, now, frame>>

css_vars == <<origin_clean, rulelist, rules>>

vars == <<gpu_vars, last, perf_vars, css_vars>>

(* ---- the world as one record, so that handlers compose ---------------- *)
World ==
    [state |-> state, map_info |-> map_info, map_promise |-> map_promise,
     promises |-> promises, views |-> views, sent |-> sent,
     scope_errors |-> scope_errors, destroy_sent |-> destroy_sent,
     channel_ok |-> channel_ok,
     inflight |-> inflight, panicked |-> panicked, dropped |-> dropped,
     last |-> last]

\* the handler's result becomes the next state (w is evaluated once)
Commit(w) ==
    \E r \in {w} :
       /\ state' = r.state
       /\ map_info' = r.map_info
       /\ map_promise' = r.map_promise
       /\ promises' = r.promises
       /\ views' = r.views
       /\ sent' = r.sent
       /\ scope_errors' = r.scope_errors
       /\ destroy_sent' = r.destroy_sent
       /\ channel_ok' = r.channel_ok
       /\ inflight' = r.inflight
       /\ panicked' = r.panicked
       /\ dropped' = r.dropped
       /\ last' = r.last
       /\ UNCHANGED <<perf_vars, css_vars>>

\* a handler can be entered: the script thread has not panicked and the
\* object still exists
Alive == ~panicked /\ ~dropped

\* entry of a call from script or from the event loop: nothing sent yet
Begin(w) == [w EXCEPT !.sent = <<>>, !.scope_errors = <<>>]

\* the call returns: result is how it ended, value the id of the promise or
\* array buffer it returned (0 when it returns none)
Returned(w, op, result, value) ==
    [w EXCEPT !.last = [op |-> op, result |-> result, value |-> value]]

\* a Rust panic: the handler stops where it is, nothing after it runs
Panic(w, op) ==
    [w EXCEPT !.panicked = TRUE, !.last = [op |-> op, result |-> "panic", value |-> 0]]

(* ---- promises ---------------------------------------------------------- *)
\* Promise::new_in_current_realm
NewPromise == [status |-> "pending", error |-> "none", calls |-> 0]

\* Promise::reject_error / Promise::resolve_native: the call is counted; the
\* promise settles on the first call only
Settle(w, p, status, error) ==
    [w EXCEPT !.promises[p] =
        [status |-> IF @.status = "pending" THEN status ELSE @.status,
         error  |-> IF @.status = "pending" THEN error ELSE @.error,
         calls  |-> @.calls + 1]]

reject_error(w, p, error) == Settle(w, p, "rejected", error)

resolve_native(w, p) == Settle(w, p, "resolved", "none")

(* ---- channel ----------------------------------------------------------- *)
\* self.channel.0.send(msg): Err iff the receiver is gone
send(w, msg) == [w EXCEPT !.sent = Append(@, [msg |-> msg, ok |-> w.channel_ok])]

\* handle_server_msg reporting nothing
handle_server_msg_Silent(w, text) == w

\* self.device.handle_server_msg(scope_id, ValidationError(text))
handle_server_msg(w, text) == [w EXCEPT !.scope_errors = Append(@, text)]

(* ---- array buffers ----------------------------------------------------- *)
\* DetachAll with the detach loop left out
DetachAll_NoDetach(w) == w

\* DetachArrayBuffer on every element of js_buffers, which is drained
DetachAll(w) ==
    LET bufs == w.map_info[1].js_buffers IN
    [w EXCEPT !.views = [v \in DOMAIN @ |->
                            IF \E i \in DOMAIN bufs : bufs[i] = v
                            THEN [@[v] EXCEPT !.attached = FALSE]
                            ELSE @[v]],
              !.map_info = Some([@[1] EXCEPT !.js_buffers = <<>>])]

(* ---- u64 arithmetic ---------------------------------------------------- *)
\* the values of GPUSize64 are 0 .. GPUSize64Limit - 1
GPUSize64Limit == 2 ^ GPUSize64Bits

\* a + b on u64 in a build without overflow checks
wrapping_add(a, b) == (a + b) % GPUSize64Limit

\* a + b on u64 does not fit: a build with overflow checks panics there
add_overflows(a, b) == a + b >= GPUSize64Limit

(* ---- GPUBuffer::Unmap -------------------------------------------------- *)
\* NothingToUnmap matching the Unmapped state only
NothingToUnmap_UnmappedOnly(w) == w.state = "Unmapped"

\* Step 1: GPUBufferState::Unmapped | GPUBufferState::Destroyed => return Ok(())
NothingToUnmap(w) == w.state \in {"Unmapped", "Destroyed"}

UnmapFn(w) ==
    IF NothingToUnmap(w)
    THEN Returned(w, "Unmap", "Ok", 0)
    ELSE
      IF w.state \in {"Mapped", "MappedAtCreation"} /\ w.map_info = None
      THEN Panic(w, "Unmap")
      ELSE IF w.state \notin {"Mapped", "MappedAtCreation"} /\ w.map_promise = None
      THEN Panic(w, "Unmap")
      ELSE
        LET w1 == IF w.state \in {"Mapped", "MappedAtCreation"}
                  THEN LET m_info == w.map_info[1] IN
                       DetachAll(send(w,
                          [type |-> "UnmapBuffer",
                           array_buffer |-> m_info.mapping,
                           is_map_read |-> (m_info.map_mode = Some(READ)),
                           offset |-> m_info.mapping_range.start,
                           size |-> m_info.mapping_range.end - m_info.mapping_range.start]))
                  ELSE [reject_error(w, w.map_promise[1], "Operation")
                            EXCEPT !.map_promise = None]
        IN Returned([w1 EXCEPT !.state = "Unmapped", !.map_info = None], "Unmap", "Ok", 0)

(* ---- GPUBuffer::Destroy ------------------------------------------------ *)
\* UnmapsFirst matching the Mapped state only
UnmapsFirst_MappedOnly(w) == w.state = "Mapped"

\* GPUBufferState::Mapped | GPUBufferState::MappedAtCreation => self.Unmap()?
UnmapsFirst(w) == w.state \in {"Mapped", "MappedAtCreation"}

DestroyFn(w) ==
    IF w.state = "Destroyed"
    THEN Returned(w, "Destroy", "Ok", 0)
    ELSE
      LET w1 == IF UnmapsFirst(w) THEN UnmapFn(w) ELSE w IN
      IF w1.panicked
      THEN Panic(w1, "Destroy")
      ELSE Returned([send(w1, [type |-> "DestroyBuffer"]) EXCEPT
                        !.state = "Destroyed", !.destroy_sent = @ + 1],
                    "Destroy", "Ok", 0)

(* ---- GPUBuffer::MapAsync ----------------------------------------------- *)
\* NotUnmapped testing for the mapped states only
NotUnmapped_MappedOnly(w) == w.state \in {"Mapped", "MappedAtCreation"}

\* self.state.get() != GPUBufferState::Unmapped
NotUnmapped(w) == w.state # "Unmapped"

\* OffsetPastEnd refusing only offsets beyond the size of the buffer
OffsetPastEnd_Strict(offset, size) == size = None /\ offset > BufSize

\* size is None and offset >= self.size: the call fails before any other check
OffsetPastEnd(offset, size) == size = None /\ offset >= BufSize

\* ValidMode accepting every mode with a bit set
ValidMode_AnyBit(mode) == mode # 0

\* match mode: GPUMapModeConstants::READ and GPUMapModeConstants::WRITE are
\* the two arms that do not return
ValidMode(mode) == mode \in {READ, WRITE}

\* FirstFailingGuard with the state checked before the offset
FirstFailingGuard_StateFirst(w, mode, offset, size) ==
    IF NotUnmapped(w) THEN "state"
    ELSE IF OffsetPastEnd(offset, size) THEN "offset"
    ELSE IF ~ValidMode(mode) THEN "mode"
    ELSE "none"

\* the early returns of MapAsync in the order the code takes them
FirstFailingGuard(w, mode, offset, size) ==
    IF OffsetPastEnd(offset, size) THEN "offset"
    ELSE IF NotUnmapped(w) THEN "state"
    ELSE IF ~ValidMode(mode) THEN "mode"
    ELSE "none"

\* MapRange starting at the beginning of the buffer
MapRange_FromZero(offset, range_size) == [start |-> 0, end |-> range_size]

\* let map_range = offset..offset + range_size
MapRange(offset, range_size) ==
    [start |-> offset, end |-> wrapping_add(offset, range_size)]

\* SendFailed with the result of the send ignored
SendFailed_Ignored(w) == FALSE

\* if let Err(e) = self.channel.0.send(..BufferMapAsync..)
SendFailed(w) == ~w.channel_ok

\* NewMapInfo with the whole range already handed out as a view
NewMapInfo_WithRange(map_range, mode) ==
    Some([mapping |-> <<>>,
          mapping_range |-> map_range,
          mapped_ranges |-> <<map_range>>,
          js_buffers |-> <<>>,
          map_mode |-> Some(mode)])

\* the GPUBufferMapInfo MapAsync stores: no bytes yet, no ranges handed out
NewMapInfo(map_range, mode) ==
    Some([mapping |-> <<>>,
          mapping_range |-> map_range,
          mapped_ranges |-> <<>>,
          js_buffers |-> <<>>,
          map_mode |-> Some(mode)])

\* a promise rejected before MapAsync returns is never stored by the buffer:
\* it is recorded as the result of the call; only a promise whose request was
\* sent enters `promises`
MapAsyncFn(w, mode, offset, size) ==
    LET rejected(x, error) == Returned(x, "MapAsync", error, 0)
        failing == FirstFailingGuard(w, mode, offset, size)
    IN
    IF failing = "offset"
    THEN rejected(w, "rejected_Operation")
    ELSE IF failing = "state"
    THEN rejected(handle_server_msg(w, "Buffer is not Unmapped"), "rejected_Abort")
    ELSE IF failing = "mode"
    THEN rejected(handle_server_msg(w, "Invalid MapModeFlags"), "rejected_Abort")
    ELSE
      LET range_size == IF size # None THEN size[1] ELSE BufSize - offset
          map_range  == MapRange(offset, range_size)
          p   == Len(w.promises) + 1
          msg == [type |-> "BufferMapAsync", sender |-> p,
                  host_map |-> mode, map_range |-> map_range]
      IN
      IF SendFailed(w)
      THEN rejected(send(w, msg), "rejected_Operation")
      ELSE Returned([send(w, msg) EXCEPT
                        !.promises = Append(@, NewPromise),
                        !.state = "MappingPending",
                        !.map_info = NewMapInfo(map_range, mode),
                        !.map_promise = Some(p),
                        !.inflight = @ \cup {[promise |-> p, range |-> map_range]}],
                    "MapAsync", "pending", p)

\* the outcomes of a call: that of MapAsyncFn, and a panic at the addition
\* offset + range_size when it overflows (which of the two depends on whether
\* the build checks arithmetic overflow)
MapAsyncOutcomes(w, mode, offset, size) ==
    {MapAsyncFn(w, mode, offset, size)} \cup
    (IF /\ FirstFailingGuard(w, mode, offset, size) = "none"
        /\ add_overflows(offset, IF size # None THEN size[1] ELSE BufSize - offset)
     THEN {Panic(w, "MapAsync")}
     ELSE {})

(* ---- GPUBuffer::GetMappedRange ----------------------------------------- *)
\* DefaultRangeSize measured to the end of the mapping
DefaultRangeSize_ToMappingEnd(w, offset) ==
    IF w.map_info = None THEN BufSize - offset
    ELSE w.map_info[1].mapping_range.end - offset

\* the size of the view when none is given: self.size - offset
DefaultRangeSize(w, offset) == BufSize - offset

GetMappedRangeFn(w, offset, size) ==
    IF size = None /\ offset >= BufSize
    THEN Returned(w, "GetMappedRange", "Err_Operation", 0)
    ELSE
      LET range_size == IF size # None THEN size[1] ELSE DefaultRangeSize(w, offset)
          m_end == wrapping_add(offset, range_size)
      IN
      IF w.map_info = None
      THEN Panic(w, "GetMappedRange")
      ELSE
        LET m_info == w.map_info[1]
            valid ==
              /\ w.state \in {"Mapped", "MappedAtCreation"}
              /\ offset % RANGE_OFFSET_ALIGN_MASK = 0
              /\ range_size % RANGE_SIZE_ALIGN_MASK = 0
              /\ offset >= m_info.mapping_range.start
              /\ m_end <= m_info.mapping_range.end
              /\ \A i \in DOMAIN m_info.mapped_ranges :
                    \/ m_info.mapped_ranges[i].start >= m_end
                    \/ m_info.mapped_ranges[i].end <= offset
            v == Len(w.views) + 1
        IN
        IF ~valid
        THEN Returned(w, "GetMappedRange", "Err_Operation", 0)
        ELSE IF offset > m_end \/ m_end > Len(m_info.mapping)
        THEN Panic(w, "GetMappedRange")
        ELSE Returned(
               [w EXCEPT
                  !.views = Append(@, [attached |-> TRUE, dangling |-> FALSE]),
                  !.map_info = Some([m_info EXCEPT
                                       !.mapped_ranges = Append(@, [start |-> offset, end |-> m_end]),
                                       !.js_buffers = Append(@, v)])],
               "GetMappedRange", "Ok", v)

\* the outcomes of a call: that of GetMappedRangeFn, and a panic at the
\* addition offset + range_size when it overflows in a build that checks
\* arithmetic overflow
GetMappedRangeOutcomes(w, offset, size) ==
    {GetMappedRangeFn(w, offset, size)} \cup
    (IF size # None /\ add_overflows(offset, size[1])
     THEN {Panic(w, "GetMappedRange")}
     ELSE {})

(* ---- AsyncWGPUListener::handle_response -------------------------------- *)
\* assigning a new Vec to the shared mapping frees the old allocation: every
\* array buffer still attached to it is left pointing at freed memory
ReplaceMapping(w, bytes) ==
    LET m_info == w.map_info[1] IN
    [w EXCEPT !.map_info = Some([m_info EXCEPT !.mapping = bytes]),
              !.views = [v \in DOMAIN @ |->
                            IF @[v].attached /\ \E i \in DOMAIN m_info.js_buffers :
                                                    m_info.js_buffers[i] = v
                            THEN [@[v] EXCEPT !.dangling = TRUE]
                            ELSE @[v]]]

handle_response(w, req, response) ==
    LET p  == req.promise
        w0 == [w EXCEPT !.inflight = @ \ {req}]
    IN
    IF response.ok /\ w.map_info = None
    THEN Panic(w0, "handle_response")
    ELSE
      LET w1 == IF response.ok
                THEN [resolve_native(ReplaceMapping(w0, response.bytes), p)
                         EXCEPT !.state = "Mapped"]
                ELSE reject_error(w0, p, "Abort")
      IN Returned(send([w1 EXCEPT !.map_promise = None], [type |-> "BufferMapComplete"]),
                  "handle_response", IF response.ok THEN "Ok" ELSE "Err", 0)

(* ---- inputs ------------------------------------------------------------ *)
Modes == {0, READ, WRITE, READ + WRITE}
MapOffsets == {0, 8, BufSize}
MapSizes == {None, Some(BufSize - 8)}
ViewOffsets == {0, 4, 8, BufSize}
ViewSizes == {None, Some(4), Some(6)}

Fill(n, b) == [i \in 1..n |-> b]

\* the responses the WebGPU thread can give to a request: an error, or the
\* bytes of the requested range when that range lies inside the buffer (the
\* content served to request p is written as p in every byte)
Responses(req) ==
    {[ok |-> FALSE]} \cup
    (IF req.range.start <= req.range.end /\ req.range.end <= BufSize
     THEN {[ok |-> TRUE, bytes |-> Fill(req.range.end - req.range.start, req.promise)]}
     ELSE {})

(* ---- initial states: GPUBuffer::new ------------------------------------ *)
\* new() takes state and map_info from the caller that creates the buffer: an
\* unmapped buffer, or one mapped at creation over its whole, zeroed, range
(* ==== Performance (components/script/dom/performance.rs) ================ *)
INVALID_ENTRY_NAMES ==
    {"navigationStart", "unloadEventStart", "unloadEventEnd", "redirectStart",
     "redirectEnd", "fetchStart", "domainLookupStart", "domainLookupEnd",
     "connectStart", "connectEnd", "secureConnectionStart", "requestStart",
     "responseStart", "responseEnd", "domLoading", "domInteractive",
     "domContentLoadedEventStart", "domContentLoadedEventEnd", "domComplete",
     "loadEventStart", "loadEventEnd"}

(* ---- inputs ------------------------------------------------------------ *)
\* names of marks and measures; names of resource entries
Names == {"a", "b"}
ResourceNames == {"a"}
\* arguments of Mark
MarkNames == Names \cup {"navigationStart"}
\* Option<DOMString> arguments of ClearMarks, ClearMeasures and Measure
OptionalNames == {None} \cup {Some(n) : n \in Names}
\* arguments of SetResourceTimingBufferSize
SizeLimits == {0, InitialSizeLimit + 1}
\* the PerformanceObserver objects and the entry types they ask for
ObserverIds == {1}
ObservedTypes == {"mark"}
\* what a resourcetimingbufferfull handler does
Handlers == {"nothing", "ClearResourceTimings", "SetResourceTimingBufferSize"}

(* ---- PerformanceEntryList ---------------------------------------------- *)
\* the fields of a PerformanceEntry that the buffer looks at
PerformanceEntry(name, entry_type, start_time) ==
    [name |-> name, entry_type |-> entry_type, start_time |-> start_time]

\* Vec::sort_by on start_time: a stable sort
RECURSIVE sort_by_start_time(_)
sort_by_start_time(entries) ==
    IF entries = <<>> THEN <<>>
    ELSE LET sorted == sort_by_start_time(SubSeq(entries, 1, Len(entries) - 1))
             e == entries[Len(entries)]
             NotAfter(x) == x.start_time <= e.start_time
             After(x) == x.start_time > e.start_time
         IN SelectSeq(sorted, NotAfter) \o <<e>> \o SelectSeq(sorted, After)

\* PerformanceEntryList::get_entries_by_name_and_type
get_entries_by_name_and_type(entries, name, entry_type) ==
    LET Wanted(e) == /\ (name = None \/ e.name = name[1])
                     /\ (entry_type = None \/ e.entry_type = entry_type[1])
    IN sort_by_start_time(SelectSeq(entries, Wanted))

\* PerformanceEntryList::clear_entries_by_name_and_type: what retain keeps
clear_entries_by_name_and_type(entries, name, entry_type) ==
    LET Retained(e) == /\ (name = None \/ e.name # name[1])
                       /\ (entry_type = None \/ e.entry_type # entry_type[1])
    IN SelectSeq(entries, Retained)

\* PerformanceEntryList::get_last_entry_start_time_with_name_and_type
get_last_entry_start_time_with_name_and_type(entries, name, entry_type) ==
    LET found == {i \in DOMAIN entries : /\ entries[i].entry_type = entry_type
                                         /\ entries[i].name = name}
    IN IF found = {} THEN 0
       ELSE entries[CHOOSE i \in found : \A j \in found : j <= i].start_time

(* ---- the running queue_entry call -------------------------------------- *)
\* no call is running
Idle == [pc |-> "idle", entry |-> None, no_of_excess_entries_before |-> 0,
         popped |-> None]

notification_vars == <<pending_notification_observers_task, notifications>>

resource_vars == <<resource_timing_buffer_size_limit,
                   resource_timing_buffer_current_size,
                   resource_timing_buffer_pending_full_event,
                   resource_timing_secondary_entries>>

\* Performance::can_add_resource_timing_entry
can_add_resource_timing_entry ==
    resource_timing_buffer_current_size <= resource_timing_buffer_size_limit

\* queue_entry past the eligibility check: the entry joins the buffer, and a
\* notification task is queued unless one is pending
Admit(entry) ==
    /\ buffer' = Append(buffer, entry)
    /\ IF pending_notification_observers_task
       THEN UNCHANGED notification_vars
       ELSE /\ pending_notification_observers_task' = TRUE
            /\ notifications' = notifications + 1

\* Performance::queue_entry called while no call is running, up to its return
\* or to its entry into fire_buffer_full_event
queue_entry(entry) ==
    IF entry.entry_type = "resource"
    THEN IF ~resource_timing_buffer_pending_full_event
         THEN IF can_add_resource_timing_entry
              THEN /\ resource_timing_buffer_current_size' =
                          resource_timing_buffer_current_size + 1
                   /\ Admit(entry)
                   /\ UNCHANGED <<resource_timing_buffer_size_limit,
                                  resource_timing_buffer_pending_full_event,
                                  resource_timing_secondary_entries, frame>>
              ELSE /\ resource_timing_buffer_pending_full_event' = TRUE
                   /\ frame' = [Idle EXCEPT !.pc = "fire_buffer_full_event",
                                            !.entry = Some(entry)]
                   /\ UNCHANGED <<buffer, notification_vars,
                                  resource_timing_buffer_size_limit,
                                  resource_timing_buffer_current_size,
                                  resource_timing_secondary_entries>>
         ELSE /\ resource_timing_secondary_entries' =
                     Append(resource_timing_secondary_entries, entry)
              /\ UNCHANGED <<buffer, notification_vars,
                             resource_timing_buffer_size_limit,
                             resource_timing_buffer_current_size,
                             resource_timing_buffer_pending_full_event, frame>>
    ELSE /\ Admit(entry)
         /\ UNCHANGED <<resource_vars, frame>>

\* what queue_entry returns: the index of the entry when it queued the
\* notification task, None otherwise; "running" while it has not returned
queue_entry_result(entry) ==
    IF entry.entry_type = "resource" /\ resource_timing_buffer_pending_full_event
    THEN [op |-> "queue_entry", result |-> "None", value |-> 0]
    ELSE IF entry.entry_type = "resource" /\ ~can_add_resource_timing_entry
    THEN [op |-> "queue_entry", result |-> "running", value |-> 0]
    ELSE IF pending_notification_observers_task
    THEN [op |-> "queue_entry", result |-> "None", value |-> 0]
    ELSE [op |-> "queue_entry", result |-> "Some", value |-> Len(buffer)]

\* EventTarget::fire_event(resourcetimingbufferfull): the handler runs inside
fire_event(handler) ==
    CASE handler = "nothing" ->
            UNCHANGED <<buffer, resource_timing_buffer_size_limit,
                        resource_timing_buffer_current_size>>
      [] handler = "ClearResourceTimings" ->
            /\ buffer' = clear_entries_by_name_and_type(buffer, None, Some("resource"))
            /\ resource_timing_buffer_current_size' = 0
            /\ UNCHANGED resource_timing_buffer_size_limit
      [] handler = "SetResourceTimingBufferSize" ->
            /\ \E max_size \in SizeLimits :
                  /\ max_size > resource_timing_buffer_size_limit
                  /\ resource_timing_buffer_size_limit' = max_size
            /\ UNCHANGED <<buffer, resource_timing_buffer_current_size>>

\* Performance::fire_buffer_full_event at the head of its loop: it leaves
\* with the flag cleared, or fires the event and goes on to copy
fire_buffer_full_event ==
    /\ frame.pc = "fire_buffer_full_event"
    /\ IF resource_timing_secondary_entries = <<>>
       THEN /\ resource_timing_buffer_pending_full_event' = FALSE
            /\ frame' = [frame EXCEPT !.pc = "should_queue_resource_entry"]
            /\ UNCHANGED <<buffer, resource_timing_buffer_size_limit,
                           resource_timing_buffer_current_size,
                           resource_timing_secondary_entries>>
       ELSE /\ frame' = [frame EXCEPT
                            !.pc = "copy_secondary_resource_timing_buffer",
                            !.no_of_excess_entries_before =
                                Len(resource_timing_secondary_entries)]
            /\ IF can_add_resource_timing_entry
               THEN UNCHANGED <<buffer, resource_timing_buffer_size_limit,
                                resource_timing_buffer_current_size>>
               ELSE \E handler \in Handlers : fire_event(handler)
            /\ UNCHANGED <<resource_timing_buffer_pending_full_event,
                           resource_timing_secondary_entries>>
    /\ UNCHANGED <<observers, notification_vars, now, last, gpu_vars, css_vars>>

\* Performance::copy_secondary_resource_timing_buffer at the head of its
\* loop: it pops the front entry, or returns to fire_buffer_full_event, which
\* compares the lengths and leaves or loops
copy_secondary_resource_timing_buffer ==
    /\ frame.pc = "copy_secondary_resource_timing_buffer"
    /\ IF can_add_resource_timing_entry /\ resource_timing_secondary_entries # <<>>
       THEN /\ frame' = [frame EXCEPT
                            !.pc = "queue_entry",
                            !.popped = Some(Head(resource_timing_secondary_entries))]
            /\ resource_timing_secondary_entries' =
                   Tail(resource_timing_secondary_entries)
            /\ UNCHANGED resource_timing_buffer_pending_full_event
       ELSE IF frame.no_of_excess_entries_before <=
                   Len(resource_timing_secondary_entries)
            THEN /\ resource_timing_secondary_entries' = <<>>
                 /\ resource_timing_buffer_pending_full_event' = FALSE
                 /\ frame' = [frame EXCEPT !.pc = "should_queue_resource_entry"]
            ELSE /\ frame' = [frame EXCEPT !.pc = "fire_buffer_full_event"]
                 /\ UNCHANGED <<resource_timing_buffer_pending_full_event,
                                resource_timing_secondary_entries>>
    /\ UNCHANGED <<buffer, observers, notification_vars,
                   resource_timing_buffer_size_limit,
                   resource_timing_buffer_current_size, now, last,
                   gpu_vars, css_vars>>

\* queue_entry called by copy_secondary_resource_timing_buffer on the entry
\* it popped: a resource entry, which should_queue_resource_entry puts back
\* on the secondary queue while the full event is pending
queue_entry_popped ==
    /\ frame.pc = "queue_entry"
    /\ IF resource_timing_buffer_pending_full_event
       THEN /\ resource_timing_secondary_entries' =
                   Append(resource_timing_secondary_entries, frame.popped[1])
            /\ UNCHANGED <<buffer, notification_vars,
                           resource_timing_buffer_current_size>>
       ELSE /\ can_add_resource_timing_entry
            /\ resource_timing_buffer_current_size' =
                   resource_timing_buffer_current_size + 1
            /\ Admit(frame.popped[1])
            /\ UNCHANGED resource_timing_secondary_entries
    /\ frame' = [frame EXCEPT !.pc = "copy_secondary_resource_timing_buffer",
                              !.popped = None]
    /\ UNCHANGED <<observers, resource_timing_buffer_size_limit,
                   resource_timing_buffer_pending_full_event, now, last,
                   gpu_vars, css_vars>>

\* Performance::should_queue_resource_entry after fire_buffer_full_event has
\* returned: the entry goes to the secondary queue and queue_entry returns None
should_queue_resource_entry ==
    /\ frame.pc = "should_queue_resource_entry"
    /\ resource_timing_secondary_entries' =
           Append(resource_timing_secondary_entries, frame.entry[1])
    /\ frame' = Idle
    /\ last' = [op |-> "queue_entry", result |-> "None", value |-> 0]
    /\ UNCHANGED <<buffer, observers, notification_vars,
                   resource_timing_buffer_size_limit,
                   resource_timing_buffer_current_size,
                   resource_timing_buffer_pending_full_event, now,
                   gpu_vars, css_vars>>

(* ---- calls on the Performance ------------------------------------------ *)
\* Of the calls on the Performance, last records those that hand an entry
\* to queue_entry, with what they return, and the call that disables the
\* buffer; the other calls return nothing and leave last as it is.
\* the script thread is between calls
PerformanceIdle == frame.pc = "idle"

\* a resource timing entry is handed to queue_entry by the fetch code
QueueEntryStep(entry) ==
    /\ PerformanceIdle
    /\ Len(buffer) < MaxEntries
    /\ queue_entry(entry)
    /\ last' = queue_entry_result(entry)
    /\ UNCHANGED <<observers, now, gpu_vars, css_vars>>

QueueResourceEntry ==
    \E name \in ResourceNames :
        QueueEntryStep(PerformanceEntry(name, "resource", now))

\* PerformanceMethods::Mark
MarkStep(mark_name) ==
    /\ PerformanceIdle
    /\ Len(buffer) < MaxEntries
    /\ IF mark_name \in INVALID_ENTRY_NAMES
       THEN /\ last' = [op |-> "Mark", result |-> "Err_Syntax", value |-> 0]
            /\ UNCHANGED <<buffer, notification_vars, resource_vars, frame>>
       ELSE /\ queue_entry(PerformanceEntry(mark_name, "mark", now))
            /\ last' = [op |-> "Mark", result |-> "Ok", value |-> 0]
    /\ UNCHANGED <<observers, now, gpu_vars, css_vars>>

Mark == \E mark_name \in MarkNames : MarkStep(mark_name)

\* PerformanceMethods::Measure; the end mark decides the duration only, which
\* the buffer does not look at
MeasureStep(measure_name, start_mark) ==
    /\ PerformanceIdle
    /\ Len(buffer) < MaxEntries
    /\ LET start_time ==
               IF start_mark # None
               THEN get_last_entry_start_time_with_name_and_type(
                        buffer, "mark", start_mark[1])
               ELSE 0
       IN queue_entry(PerformanceEntry(measure_name, "measure", start_time))
    /\ last' = [op |-> "Measure", result |-> "Ok", value |-> 0]
    /\ UNCHANGED <<observers, now, gpu_vars, css_vars>>

Measure == \E measure_name \in Names, start_mark \in OptionalNames :
               MeasureStep(measure_name, start_mark)

\* PerformanceMethods::ClearMarks
ClearMarksStep(mark_name) ==
    /\ PerformanceIdle
    /\ buffer' = clear_entries_by_name_and_type(buffer, mark_name, Some("mark"))
    /\ UNCHANGED last
    /\ UNCHANGED <<observers, notification_vars, resource_vars, now, frame,
                   gpu_vars, css_vars>>

ClearMarks == \E mark_name \in OptionalNames : ClearMarksStep(mark_name)

\* PerformanceMethods::ClearMeasures
ClearMeasuresStep(measure_name) ==
    /\ PerformanceIdle
    /\ buffer' = clear_entries_by_name_and_type(buffer, measure_name, Some("measure"))
    /\ UNCHANGED last
    /\ UNCHANGED <<observers, notification_vars, resource_vars, now, frame,
                   gpu_vars, css_vars>>

ClearMeasures == \E measure_name \in OptionalNames : ClearMeasuresStep(measure_name)

\* PerformanceMethods::ClearResourceTimings
ClearResourceTimings ==
    /\ PerformanceIdle
    /\ buffer' = clear_entries_by_name_and_type(buffer, None, Some("resource"))
    /\ resource_timing_buffer_current_size' = 0
    /\ UNCHANGED last
    /\ UNCHANGED <<observers, notification_vars,
                   resource_timing_buffer_size_limit,
                   resource_timing_buffer_pending_full_event,
                   resource_timing_secondary_entries, now, frame,
                   gpu_vars, css_vars>>

\* PerformanceMethods::SetResourceTimingBufferSize
SetResourceTimingBufferSizeStep(max_size) ==
    /\ PerformanceIdle
    /\ resource_timing_buffer_size_limit' = max_size
    /\ UNCHANGED last
    /\ UNCHANGED <<buffer, observers, notification_vars,
                   resource_timing_buffer_current_size,
                   resource_timing_buffer_pending_full_event,
                   resource_timing_secondary_entries, now, frame,
                   gpu_vars, css_vars>>

SetResourceTimingBufferSize ==
    \E max_size \in SizeLimits : SetResourceTimingBufferSizeStep(max_size)

\* Performance::clear_and_disable_performance_entry_buffer
clear_and_disable_performance_entry_buffer ==
    /\ PerformanceIdle
    /\ buffer' = <<>>
    /\ resource_timing_buffer_size_limit' = 0
    /\ last' = [op |-> "clear_and_disable_performance_entry_buffer",
                result |-> "Ok", value |-> 0]
    /\ UNCHANGED <<observers, notification_vars,
                   resource_timing_buffer_current_size,
                   resource_timing_buffer_pending_full_event,
                   resource_timing_secondary_entries, now, frame,
                   gpu_vars, css_vars>>

\* observers.iter().position(|o| *o.observer == *observer): 0 when absent
position(observer) ==
    IF \E i \in DOMAIN observers : observers[i].observer = observer
    THEN CHOOSE i \in DOMAIN observers :
            /\ observers[i].observer = observer
            /\ \A j \in DOMAIN observers : observers[j].observer = observer => i <= j
    ELSE 0

\* Performance::add_multiple_type_observer
add_multiple_type_observer(observer, entry_types) ==
    /\ PerformanceIdle
    /\ observers' =
          IF position(observer) # 0
          THEN [observers EXCEPT ![position(observer)].entry_types = entry_types]
          ELSE Append(observers, [observer |-> observer, entry_types |-> entry_types])
    /\ UNCHANGED last
    /\ UNCHANGED <<buffer, notification_vars, resource_vars, now, frame,
                   gpu_vars, css_vars>>

AddMultipleTypeObserver ==
    \E observer \in ObserverIds, entry_types \in {<<"resource">>} :
        add_multiple_type_observer(observer, entry_types)

\* Performance::add_single_type_observer; the entries handed to the observer
\* when buffered are kept by the observer, not by the Performance
add_single_type_observer(observer, entry_type, buffered) ==
    /\ PerformanceIdle
    /\ IF buffered /\ ~pending_notification_observers_task
       THEN /\ pending_notification_observers_task' = TRUE
            /\ notifications' = notifications + 1
       ELSE UNCHANGED notification_vars
    /\ observers' =
          IF position(observer) # 0
          THEN IF \E i \in DOMAIN observers[position(observer)].entry_types :
                      observers[position(observer)].entry_types[i] = entry_type
               THEN observers
               ELSE [observers EXCEPT ![position(observer)].entry_types =
                                          Append(@, entry_type)]
          ELSE Append(observers, [observer |-> observer,
                                  entry_types |-> <<entry_type>>])
    /\ UNCHANGED last
    /\ UNCHANGED <<buffer, resource_vars, now, frame, gpu_vars, css_vars>>

AddSingleTypeObserver ==
    \E observer \in ObserverIds, entry_type \in ObservedTypes, buffered \in BOOLEAN :
        add_single_type_observer(observer, entry_type, buffered)

\* Performance::remove_observer
remove_observer(observer) ==
    /\ PerformanceIdle
    /\ observers' =
          IF position(observer) # 0
          THEN SubSeq(observers, 1, position(observer) - 1) \o
               SubSeq(observers, position(observer) + 1, Len(observers))
          ELSE observers
    /\ UNCHANGED last
    /\ UNCHANGED <<buffer, notification_vars, resource_vars, now, frame,
                   gpu_vars, css_vars>>

RemoveObserver == \E observer \in ObserverIds : remove_observer(observer)

\* notify_observers leaving the pending flag as it is
notify_observers_KeepsFlag ==
    /\ PerformanceIdle
    /\ notifications > 0
    /\ notifications' = notifications - 1
    /\ UNCHANGED last
    /\ UNCHANGED <<buffer, observers, pending_notification_observers_task,
                   resource_vars, now, frame, gpu_vars, css_vars>>

\* Performance::notify_observers, run by the queued notification task
notify_observers ==
    /\ PerformanceIdle
    /\ notifications > 0
    /\ notifications' = notifications - 1
    /\ pending_notification_observers_task' = FALSE
    /\ UNCHANGED last
    /\ UNCHANGED <<buffer, observers, resource_vars, now, frame,
                   gpu_vars, css_vars>>

\* time passes
Tick ==
    /\ PerformanceIdle
    /\ now < MaxNow
    /\ now' = now + 1
    /\ UNCHANGED <<buffer, observers, notification_vars, resource_vars, frame,
                   last, gpu_vars, css_vars>>


(* ---- the Performance alone --------------------------------------------- *)
\* the steps of a queue_entry call that has entered fire_buffer_full_event
QueueEntryRunning ==
    \/ fire_buffer_full_event
    \/ copy_secondary_resource_timing_buffer
    \/ queue_entry_popped
    \/ should_queue_resource_entry

NextPerformance ==
    \/ QueueResourceEntry
    \/ Mark
    \/ Measure
    \/ ClearMarks
    \/ ClearMeasures
    \/ ClearResourceTimings
    \/ SetResourceTimingBufferSize
    \/ clear_and_disable_performance_entry_buffer
    \/ AddMultipleTypeObserver
    \/ AddSingleTypeObserver
    \/ RemoveObserver
    \/ notify_observers
    \/ Tick
    \/ QueueEntryRunning

(* ==== CSSStyleSheet (components/script/dom/cssstylesheet.rs) ============ *)
\* rule texts handed to InsertRule; the empty text does not parse
RuleTexts == {"p", "q", ""}
\* indices handed to InsertRule and DeleteRule
RuleIndices == 0 .. MaxRules

\* CSSStyleSheet::rulelist: the rule list is created on first use and shares
\* the rules of the stylesheet
or_init == IF rulelist = None THEN Some("CSSRuleList") ELSE rulelist

\* CSSRuleList::insert_rule: what it returns
insert_rule_result(rule, index) ==
    IF index > Len(rules) THEN "Err_IndexSize"
    ELSE IF rule = "" THEN "Err_Syntax"
    ELSE "Ok"

\* CSSRuleList::insert_rule: the rules it leaves
insert_rule(rule, index) ==
    IF insert_rule_result(rule, index) = "Ok"
    THEN SubSeq(rules, 1, index) \o <<rule>> \o SubSeq(rules, index + 1, Len(rules))
    ELSE rules

\* CSSRuleList::remove_rule: what it returns
remove_rule_result(index) ==
    IF index >= Len(rules) THEN "Err_IndexSize" ELSE "Ok"

\* CSSRuleList::remove_rule: the rules it leaves
remove_rule(index) ==
    IF remove_rule_result(index) = "Ok"
    THEN SubSeq(rules, 1, index) \o SubSeq(rules, index + 2, Len(rules))
    ELSE rules

\* CSSStyleSheet::set_origin_clean
set_origin_clean(clean) ==
    /\ origin_clean' = clean
    /\ last' = [op |-> "set_origin_clean", result |-> "Ok", value |-> 0]
    /\ UNCHANGED <<rulelist, rules, gpu_vars, perf_vars>>

SetOriginClean == \E clean \in BOOLEAN : set_origin_clean(clean)

\* CSSStyleSheetMethods::GetCssRules
GetCssRules ==
    /\ IF ~origin_clean
       THEN /\ last' = [op |-> "GetCssRules", result |-> "Err_Security", value |-> 0]
            /\ UNCHANGED rulelist
       ELSE /\ rulelist' = or_init
            /\ last' = [op |-> "GetCssRules", result |-> "Ok", value |-> 0]
    /\ UNCHANGED <<origin_clean, rules, gpu_vars, perf_vars>>

\* InsertRule without the origin check
InsertRuleStep_Unchecked(rule, index) ==
    /\ Len(rules) < MaxRules
    /\ rulelist' = or_init
    /\ rules' = insert_rule(rule, index)
    /\ last' = [op |-> "InsertRule",
                result |-> insert_rule_result(rule, index),
                value |-> IF insert_rule_result(rule, index) = "Ok"
                          THEN index ELSE 0]
    /\ UNCHANGED <<origin_clean, gpu_vars, perf_vars>>

\* CSSStyleSheetMethods::InsertRule
InsertRuleStep(rule, index) ==
    /\ origin_clean => Len(rules) < MaxRules
    /\ IF ~origin_clean
       THEN /\ last' = [op |-> "InsertRule", result |-> "Err_Security", value |-> 0]
            /\ UNCHANGED <<rulelist, rules>>
       ELSE /\ rulelist' = or_init
            /\ rules' = insert_rule(rule, index)
            /\ last' = [op |-> "InsertRule",
                        result |-> insert_rule_result(rule, index),
                        value |-> IF insert_rule_result(rule, index) = "Ok"
                                  THEN index ELSE 0]
    /\ UNCHANGED <<origin_clean, gpu_vars, perf_vars>>

InsertRule == \E rule \in RuleTexts, index \in RuleIndices : InsertRuleStep(rule, index)

\* CSSStyleSheetMethods::DeleteRule
DeleteRuleStep(index) ==
    /\ IF ~origin_clean
       THEN /\ last' = [op |-> "DeleteRule", result |-> "Err_Security", value |-> 0]
            /\ UNCHANGED <<rulelist, rules>>
       ELSE /\ rulelist' = or_init
            /\ rules' = remove_rule(index)
            /\ last' = [op |-> "DeleteRule", result |-> remove_rule_result(index),
                        value |-> 0]
    /\ UNCHANGED <<origin_clean, gpu_vars, perf_vars>>

DeleteRule == \E index \in RuleIndices : DeleteRuleStep(index)

NextCSSStyleSheet ==
    \/ SetOriginClean
    \/ GetCssRules
    \/ InsertRule
    \/ DeleteRule

(* ==== initial state ==================================================== *)
Init ==
    /\ \/ /\ state = "Unmapped"
          /\ map_info = None
       \/ /\ state = "MappedAtCreation"
          /\ map_info = Some([mapping |-> Fill(BufSize, 0),
                              mapping_range |-> [start |-> 0, end |-> BufSize],
                              mapped_ranges |-> <<>>,
                              js_buffers |-> <<>>,
                              map_mode |-> None])
    /\ map_promise = None
    /\ promises = <<>>
    /\ views = <<>>
    /\ sent = <<>>
    /\ scope_errors = <<>>
    /\ destroy_sent = 0
    /\ channel_ok = TRUE
    /\ inflight = {}
    /\ panicked = FALSE
    /\ dropped = FALSE
    /\ last = [op |-> "new", result |-> "Ok", value |-> 0]
    /\ buffer = <<>>
    /\ observers = <<>>
    /\ pending_notification_observers_task = FALSE
    /\ notifications = 0
    /\ resource_timing_buffer_size_limit = InitialSizeLimit
    /\ resource_timing_buffer_current_size = 0
    /\ resource_timing_buffer_pending_full_event = FALSE
    /\ resource_timing_secondary_entries = <<>>
    /\ now = 0
    /\ frame = Idle
    /\ origin_clean = TRUE
    /\ rulelist = None
    /\ rules = <<>>

(* ---- actions ----------------------------------------------------------- *)
Unmap == Alive /\ Commit(UnmapFn(Begin(World)))

Destroy == Alive /\ Commit(DestroyFn(Begin(World)))

MapAsyncStep(mode, offset, size) ==
    /\ Alive
    /\ Len(promises) < MaxPromises
    /\ \E outcome \in MapAsyncOutcomes(Begin(World), mode, offset, size) :
          Commit(outcome)

MapAsync == \E mode \in Modes, offset \in MapOffsets, size \in MapSizes :
                MapAsyncStep(mode, offset, size)

GetMappedRangeStep(offset, size) ==
    /\ Alive
    /\ Len(views) < MaxViews
    /\ \E outcome \in GetMappedRangeOutcomes(Begin(World), offset, size) :
          Commit(outcome)

GetMappedRange == \E offset \in ViewOffsets, size \in ViewSizes :
                      GetMappedRangeStep(offset, size)

HandleResponseStep(req, response) ==
    /\ Alive
    /\ req \in inflight
    /\ Commit(handle_response(Begin(World), req, response))

HandleResponse == \E req \in inflight : \E response \in Responses(req) :
                      HandleResponseStep(req, response)

\* Drop that frees the object without running Destroy
Drop_NoDestroy ==
    /\ Alive
    /\ inflight = {}
    /\ Commit([Returned(Begin(World), "drop", "Ok", 0) EXCEPT !.dropped = TRUE])

\* Drop for GPUBuffer: runs Destroy; a pending response keeps the object
\* rooted, so it is dropped only with no request in flight
Drop ==
    /\ Alive
    /\ inflight = {}
    /\ Commit([DestroyFn(Begin(World)) EXCEPT !.dropped = TRUE, !.last.op = "drop"])

\* the WebGPU thread goes away: every later send fails
ChannelClose ==
    /\ Alive
    /\ channel_ok
    /\ channel_ok' = FALSE
    /\ UNCHANGED <<state, map_info, map_promise, promises, views, sent,
                   scope_errors, destroy_sent, inflight, panicked, dropped, last>>
    /\ UNCHANGED <<perf_vars, css_vars>>

Next ==
    \/ Unmap
    \/ Destroy
    \/ MapAsync
    \/ GetMappedRange
    \/ HandleResponse
    \/ Drop
    \/ ChannelClose

Spec == Init /\ [][Next]_vars

\* calls whose offset + size does not fit the 64-bit type
WideOffsets == {GPUSize64Limit - 8}
WideSizes == {Some(8)}

MapAsyncWide == \E mode \in {READ, WRITE}, offset \in WideOffsets, size \in WideSizes :
                    MapAsyncStep(mode, offset, size)

GetMappedRangeWide == \E offset \in WideOffsets, size \in WideSizes :
                          GetMappedRangeStep(offset, size)

NextWide ==
    \/ Next
    \/ MapAsyncWide
    \/ GetMappedRangeWide

SpecWide == Init /\ [][NextWide]_vars

\* the event loop runs the handler of every response that has arrived, and
\* the WebGPU thread answers every request it was sent
SpecLive == Spec /\ WF_vars(HandleResponse)

\* a new Performance and a new CSSStyleSheet, beside an unmapped buffer
InitUnmapped == Init /\ state = "Unmapped"

\* the Performance of a window, alone
SpecPerformance == InitUnmapped /\ [][NextPerformance]_vars

\* the script thread goes on executing the call it is in
SpecPerformanceLive == SpecPerformance /\ WF_vars(QueueEntryRunning)

\* the CSSStyleSheet alone
SpecCSSStyleSheet == InitUnmapped /\ [][NextCSSStyleSheet]_vars

(* ======================================================================== *)
(* Properties                                                               *)
(* ======================================================================== *)
MappedStates == {"Mapped", "MappedAtCreation"}

\* the array buffers still attached to their storage
Attached == {v \in DOMAIN views : views[v].attached}

\* a step that is a call of MapAsync (ChannelClose leaves `last` as it was)
IsMapAsyncCall == last'.op = "MapAsync" /\ channel_ok' = channel_ok

\* C1: the mapping region (map_info) is present if and only if the state is
\* MappingPending, Mapped or MappedAtCreation.
C1_MapInfoIffMapped ==
    (map_info # None) <=> (state \in {"MappingPending", "Mapped", "MappedAtCreation"})

\* C2: the state changes only along the transition table: Unmapped ->
\* MappingPending by map_async, MappingPending -> Mapped by a response,
\* MappingPending/Mapped/MappedAtCreation -> Unmapped by unmap, any state but
\* Destroyed -> Destroyed by destroy; Destroyed is never left.
C2_TransitionTable ==
    [][\/ state' = state
       \/ state = "Unmapped" /\ state' = "MappingPending" /\ last'.op = "MapAsync"
       \/ state = "MappingPending" /\ state' = "Mapped" /\ last'.op = "handle_response"
       \/ state \in {"MappingPending", "Mapped", "MappedAtCreation"}
             /\ state' = "Unmapped" /\ last'.op = "Unmap"
       \/ state # "Destroyed" /\ state' = "Destroyed" /\ last'.op \in {"Destroy", "drop"}
      ]_vars

\* C3: once the buffer is Destroyed no map future is left stored and
\* unsettled: destroy in MappingPending rejects the outstanding future.
C3_DestroyRejectsPending ==
    state = "Destroyed" =>
        (map_promise = None \/ promises[map_promise[1]].status # "pending")

\* what C4 requires of a map_async call made in MappingPending
C4_Rejected ==
    /\ last'.result = "rejected_Abort"
    /\ sent' = <<>>
    /\ UNCHANGED <<state, map_info, map_promise, promises, inflight>>

\* C4 as stated: every map_async call made while the state is MappingPending
\* rejects the new future with an Abort-class error, sends no map request and
\* leaves the first future, the mapping region and the state unchanged.
C4_SecondMapAsyncAborts ==
    [][(state = "MappingPending" /\ IsMapAsyncCall) => C4_Rejected]_vars

\* C4 amended: a map_async call made while the state is MappingPending that
\* passes the offset guard (size given, or offset < buffer size) rejects the
\* new future with an Abort-class error, sends no map request and leaves the
\* first future, the mapping region and the state unchanged.
C4_SecondMapAsyncAbortsPastOffsetGuard ==
    [][\A mode \in Modes, offset \in MapOffsets, size \in MapSizes :
          (/\ state = "MappingPending"
           /\ IsMapAsyncCall
           /\ ~(size = None /\ offset >= BufSize))
          => (C4_Rejected \/ ~MapAsyncStep(mode, offset, size))]_vars

\* a second map_async was rejected with Abort while the first future is
\* still stored and pending
C4_Witness ==
    /\ state = "MappingPending"
    /\ last.op = "MapAsync"
    /\ last.result = "rejected_Abort"
    /\ map_promise = Some(1)
    /\ promises[1].status = "pending"

\* C5: at most one map request is outstanding (sent, response not yet
\* handled) at any time.
C5_OneRequestOutstanding == Cardinality(inflight) <= 1

\* C6: resolve/reject is invoked at most once on each future returned by
\* map_async.
C6_SettledAtMostOnce == \A p \in DOMAIN promises : promises[p].calls <= 1

\* C7: the response to a request that was cancelled by unmap or superseded by
\* destroy is handled without failing and changes neither the state, nor the
\* mapping region, nor the stored pending future.
C7_LateResponseHarmless ==
    [][\A req \in inflight :
          (/\ inflight' = inflight \ {req}
           /\ (map_promise # Some(req.promise) \/ state = "Destroyed"))
          => (/\ ~panicked'
              /\ UNCHANGED <<state, map_info, map_promise>>)]_vars

\* C8: whenever the state is not Mapped or MappedAtCreation, no view is
\* attached and no external handle is recorded.
C8_NoViewOutsideMapped ==
    state \notin MappedStates =>
        /\ Attached = {}
        /\ map_info # None => map_info[1].js_buffers = <<>>

\* views were handed out and the mapping has since been discarded by unmap or
\* destroy
C8_Witness ==
    /\ state \in {"Unmapped", "Destroyed"}
    /\ last.op \in {"Unmap", "Destroy"}
    /\ views # <<>>

\* C9: the mapping storage is never replaced or cleared while a view over it
\* is attached: no view is ever left pointing at storage that was freed.
C9_StorageStableUnderViews == \A v \in DOMAIN views : ~views[v].dangling

Overlap(a, b) == a.start < b.end /\ b.start < a.end

LiveViews == IF map_info = None THEN <<>> ELSE map_info[1].mapped_ranges

\* the preconditions of get_mapped_range other than disjointness
C10_OtherPreconditions(offset, range_size) ==
    /\ state \in MappedStates
    /\ offset % RANGE_OFFSET_ALIGN_MASK = 0
    /\ range_size % RANGE_SIZE_ALIGN_MASK = 0
    /\ map_info[1].mapping_range.start <= offset
    /\ offset + range_size <= map_info[1].mapping_range.end

\* C10: the live view ranges are pairwise non-overlapping; get_mapped_range
\* on a range disjoint from all live views (other preconditions holding)
\* succeeds, and on a range overlapping a live view it fails with an
\* Operation-class error and records nothing.
C10_ViewsDisjoint ==
    /\ [](\A i, j \in DOMAIN LiveViews : i # j => ~Overlap(LiveViews[i], LiveViews[j]))
    /\ [][\A offset \in ViewOffsets, size \in ViewSizes \ {None} :
            LET r == [start |-> offset, end |-> offset + size[1]] IN
            (map_info # None /\ GetMappedRangeStep(offset, size)) =>
              /\ (/\ C10_OtherPreconditions(offset, size[1])
                  /\ \A i \in DOMAIN LiveViews : ~Overlap(r, LiveViews[i]))
                 => (/\ last'.result = "Ok"
                     /\ map_info'[1].mapped_ranges = Append(LiveViews, r))
              /\ (\E i \in DOMAIN LiveViews : Overlap(r, LiveViews[i]))
                 => (/\ last'.result = "Err_Operation"
                     /\ UNCHANGED <<state, map_info, views>>)
         ]_vars

\* the explicit sizes get_mapped_range is called with
ExplicitViewSizes == ViewSizes \ {None}

Aligned(offset, range_size) ==
    /\ offset % RANGE_OFFSET_ALIGN_MASK = 0
    /\ range_size % RANGE_SIZE_ALIGN_MASK = 0

\* [offset, offset + range_size) lies inside the mapping_range of the stored region
Contained(offset, range_size) ==
    /\ map_info[1].mapping_range.start <= offset
    /\ offset + range_size <= map_info[1].mapping_range.end

\* C11: every recorded live view range [s, e) has s % 8 = 0, (e - s) % 4 = 0
\* and mapping_range.start <= s <= e <= mapping_range.end; a get_mapped_range
\* call violating alignment or containment fails with an Operation-class
\* error and leaves the live views unchanged.
C11_ViewsAlignedAndContained ==
    /\ [](\A i \in DOMAIN LiveViews :
            LET r == LiveViews[i] IN
            /\ r.start % RANGE_OFFSET_ALIGN_MASK = 0
            /\ (r.end - r.start) % RANGE_SIZE_ALIGN_MASK = 0
            /\ map_info[1].mapping_range.start <= r.start
            /\ r.start <= r.end
            /\ r.end <= map_info[1].mapping_range.end)
    /\ [][\A offset \in ViewOffsets, size \in ExplicitViewSizes :
            (/\ GetMappedRangeStep(offset, size)
             /\ \/ ~Aligned(offset, size[1])
                \/ map_info # None /\ ~Contained(offset, size[1]))
            => (/\ last'.result = "Err_Operation"
                /\ map_info' = map_info)
         ]_vars

\* C12: get_mapped_range called while the state is Unmapped, MappingPending
\* or Destroyed returns an Operation-class error (it does not abort) and
\* leaves the state, the mapping region and the live views unchanged.
C12_GetMappedRangeOutsideMappedErrs ==
    [][\A offset \in ViewOffsets, size \in ViewSizes :
          (/\ state \in {"Unmapped", "MappingPending", "Destroyed"}
           /\ GetMappedRangeStep(offset, size))
          => (/\ last'.result = "Err_Operation"
              /\ ~panicked'
              /\ UNCHANGED <<state, map_info, views>>)
      ]_vars

\* C13: for every mapping_range, also one that starts above 0,
\* get_mapped_range(offset, size) called in Mapped or MappedAtCreation with an
\* aligned range inside mapping_range and disjoint from all live views
\* succeeds, adds exactly [offset, offset + size) to the live views and one
\* handle to the external handles, and changes neither state nor bytes.
C13_ValidGetMappedRangeSucceeds ==
    [][\A offset \in ViewOffsets, size \in ExplicitViewSizes :
          LET r == [start |-> offset, end |-> offset + size[1]] IN
          (/\ state \in MappedStates
           /\ Aligned(offset, size[1])
           /\ Contained(offset, size[1])
           /\ \A i \in DOMAIN LiveViews : ~Overlap(r, LiveViews[i])
           /\ GetMappedRangeStep(offset, size))
          => (/\ last'.result = "Ok"
              /\ map_info'[1].mapped_ranges = Append(map_info[1].mapped_ranges, r)
              /\ Len(map_info'[1].js_buffers) = Len(map_info[1].js_buffers) + 1
              /\ map_info'[1].mapping = map_info[1].mapping
              /\ map_info'[1].mapping_range = map_info[1].mapping_range
              /\ state' = state)
      ]_vars

\* C14: get_mapped_range with size omitted uses size = mapping_range.end -
\* offset when offset < mapping_range.end and fails with an Operation-class
\* error otherwise: an aligned offset inside a mapping narrower than the
\* buffer yields the view [offset, mapping_range.end).  Stated for the
\* mappings that start at offset 0, whose storage is indexed in range.
C14_DefaultSizeToMappingEnd ==
    [][\A offset \in ViewOffsets :
          (/\ state \in MappedStates
           /\ map_info[1].mapping_range.start = 0
           /\ Len(map_info[1].mapping) = map_info[1].mapping_range.end
           /\ LiveViews = <<>>
           /\ offset % RANGE_OFFSET_ALIGN_MASK = 0
           /\ GetMappedRangeStep(offset, None))
          => IF /\ map_info[1].mapping_range.start <= offset
                /\ offset < map_info[1].mapping_range.end
             THEN /\ last'.result = "Ok"
                  /\ map_info'[1].mapped_ranges =
                        <<[start |-> offset, end |-> map_info[1].mapping_range.end]>>
             ELSE /\ last'.result = "Err_Operation"
                  /\ map_info' = map_info
      ]_vars

\* C14 amended: get_mapped_range with size omitted uses size = buffer size -
\* offset when offset < buffer size and fails with an Operation-class error
\* otherwise, in every state; so a view it records is [offset, buffer size),
\* and on a mapping that ends before the end of the buffer the call fails
\* with an Operation-class error and records nothing.
C14_DefaultSizeToBufferEnd ==
    [][\A offset \in ViewOffsets :
          last'.op = "GetMappedRange"
          => \/ /\ offset >= BufSize
                   => (/\ last'.result = "Err_Operation"
                       /\ UNCHANGED <<state, map_info, views>>)
                /\ last'.result = "Ok"
                   => (/\ map_info # None
                       /\ map_info' # None
                       /\ map_info'[1].mapped_ranges =
                             Append(map_info[1].mapped_ranges,
                                    [start |-> offset, end |-> BufSize]))
                /\ (/\ map_info # None
                    /\ offset < BufSize
                    /\ map_info[1].mapping_range.end < BufSize)
                   => (/\ last'.result = "Err_Operation"
                       /\ UNCHANGED <<state, map_info, views>>)
             \/ ~GetMappedRangeStep(offset, None)
      ]_vars

\* get_mapped_range without a size was refused on a mapping that ends before
\* the end of the buffer
C14_Witness ==
    /\ state = "Mapped"
    /\ map_info[1].mapping_range.end < BufSize
    /\ last.op = "GetMappedRange"
    /\ last.result = "Err_Operation"

\* a step that is a call of Unmap from script (ChannelClose leaves `last`)
IsUnmapCall == last'.op = "Unmap" /\ channel_ok' = channel_ok

\* C15: unmap called in Mapped or MappedAtCreation sends exactly one
\* UnmapNotify whose bytes are the mapping's current storage and as many as
\* mapping_range is long, whose offset and size are those of mapping_range
\* and whose read flag is set exactly when the recorded mode is Read; the
\* state is then Unmapped with no mapping region.
C15_UnmapNotifiesMapping ==
    [][(state \in MappedStates /\ IsUnmapCall) =>
          LET m_info == map_info[1]
              m_len  == m_info.mapping_range.end - m_info.mapping_range.start
          IN
          /\ Len(sent') = 1
          /\ sent'[1].msg.type = "UnmapBuffer"
          /\ sent'[1].msg.array_buffer = m_info.mapping
          /\ Len(sent'[1].msg.array_buffer) = m_len
          /\ sent'[1].msg.offset = m_info.mapping_range.start
          /\ sent'[1].msg.size = m_len
          /\ sent'[1].msg.is_map_read = (m_info.map_mode = Some(READ))
          /\ state' = "Unmapped"
          /\ map_info' = None
      ]_vars

\* C16: unmap called in any reachable state MappingPending completes, rejects
\* the pending map future with an Operation-class error, discards the mapping
\* region, sends no UnmapNotify and leaves the state Unmapped.
C16_UnmapCancelsPending ==
    [][(state = "MappingPending" /\ IsUnmapCall) =>
          /\ ~panicked'
          /\ last'.result = "Ok"
          /\ map_promise # None
          /\ promises'[map_promise[1]].status = "rejected"
          /\ promises'[map_promise[1]].error = "Operation"
          /\ sent' = <<>>
          /\ map_info' = None
          /\ state' = "Unmapped"
      ]_vars

\* C17: unmap called in Unmapped or Destroyed is a no-op: it returns success,
\* sends no message, settles no future and leaves the state and the mapping
\* region unchanged.
C17_UnmapNoop ==
    [][(state \in {"Unmapped", "Destroyed"} /\ IsUnmapCall) =>
          /\ last'.result = "Ok"
          /\ sent' = <<>>
          /\ scope_errors' = <<>>
          /\ UNCHANGED <<state, map_info, map_promise, promises, views,
                         inflight, destroy_sent, panicked>>
      ]_vars

\* unmap was called on a Destroyed buffer that still holds a pending future
C17_Witness ==
    /\ state = "Destroyed"
    /\ last.op = "Unmap"
    /\ last.result = "Ok"
    /\ map_promise # None

\* a step that is a call of Destroy, from script or from Drop
IsDestroyCall == last'.op \in {"Destroy", "drop"} /\ channel_ok' = channel_ok

\* C18: destroy is idempotent: a destroy call in state Destroyed sends no
\* message and changes nothing, and at most one DestroyNotify is ever sent
\* for a buffer.
C18_DestroyOnce ==
    /\ [](destroy_sent <= 1)
    /\ [][(state = "Destroyed" /\ IsDestroyCall) =>
            /\ sent' = <<>>
            /\ UNCHANGED <<state, map_info, map_promise, promises, views,
                           inflight, destroy_sent>>
         ]_vars

\* C19: destroy called in Mapped or MappedAtCreation performs the unmap
\* first: all live views are detached, the UnmapNotify is sent before the
\* DestroyNotify, the mapping region is discarded and the state is Destroyed.
C19_DestroyUnmapsFirst ==
    [][(state \in MappedStates /\ IsDestroyCall) =>
          /\ Len(sent') = 2
          /\ sent'[1].msg.type = "UnmapBuffer"
          /\ sent'[2].msg.type = "DestroyBuffer"
          /\ \A v \in DOMAIN views' : ~views'[v].attached
          /\ map_info' = None
          /\ state' = "Destroyed"
      ]_vars

\* a mapped buffer with a view handed out was destroyed
C19_Witness ==
    /\ state = "Destroyed"
    /\ last.op = "Destroy"
    /\ Len(sent) = 2
    /\ views # <<>>

\* C20: once a buffer has been destroyed every later map_async is rejected
\* without a state change, and no protocol message of any kind is sent for
\* the buffer after the one DestroyNotify.
C20_SilentAfterDestroy ==
    [][(destroy_sent >= 1 /\ channel_ok' = channel_ok) =>
          /\ sent' = <<>>
          /\ IsMapAsyncCall =>
                (/\ last'.result \in {"rejected_Operation", "rejected_Abort"}
                 /\ state' = state)
      ]_vars

\* C21: map_async with size omitted and offset >= buffer size rejects the
\* returned future at once with an Operation-class error, leaves the state
\* and the mapping region unchanged, stores no pending future and sends no
\* protocol message.
C21_OffsetPastEndRejected ==
    [][\A mode \in Modes, offset \in MapOffsets :
          (offset >= BufSize /\ IsMapAsyncCall)
          => \/ /\ last'.result = "rejected_Operation"
                /\ sent' = <<>>
                /\ scope_errors' = <<>>
                /\ UNCHANGED <<state, map_info, map_promise, promises, inflight>>
             \/ ~MapAsyncStep(mode, offset, None)
      ]_vars

\* map_async was refused with an Operation-class error although the channel
\* is open and nothing was sent: the offset guard refused it
C21_Witness ==
    /\ last.op = "MapAsync"
    /\ last.result = "rejected_Operation"
    /\ sent = <<>>
    /\ channel_ok
    /\ state = "Unmapped"

\* C22: map_async applies its guards in the order offset range (size
\* omitted), state is Unmapped, mode is exactly Read or Write, and a call
\* failing several guards ends as the first failing one does: past the end
\* with size omitted the error is Operation-class and no validation error is
\* reported, whatever the state and the mode; otherwise in a non-Unmapped
\* state the validation error reported is the not-Unmapped one, whatever the
\* mode; otherwise an invalid mode reports the invalid-mode one.
C22_GuardOrder ==
    [][\A mode \in Modes, offset \in MapOffsets, size \in MapSizes :
          IsMapAsyncCall
          => \/ IF size = None /\ offset >= BufSize
                THEN /\ last'.result = "rejected_Operation"
                     /\ scope_errors' = <<>>
                ELSE IF state # "Unmapped"
                THEN /\ last'.result = "rejected_Abort"
                     /\ scope_errors' = <<"Buffer is not Unmapped">>
                ELSE mode \notin {READ, WRITE}
                     => /\ last'.result = "rejected_Abort"
                        /\ scope_errors' = <<"Invalid MapModeFlags">>
             \/ ~MapAsyncStep(mode, offset, size)
      ]_vars

\* map_async with an invalid mode was refused in a non-Unmapped state: the
\* validation error reported is the not-Unmapped one
C22_Witness ==
    /\ last.op = "MapAsync"
    /\ last.result = "rejected_Abort"
    /\ scope_errors = <<"Buffer is not Unmapped">>
    /\ state \in {"Mapped", "Destroyed"}

\* C23: map_async that passes the offset guard while the state is
\* MappingPending, Mapped, MappedAtCreation or Destroyed rejects the future
\* at once with an Abort-class error, reports exactly one validation error
\* to the error scope of the device, sends no map request and leaves state,
\* mapping region and any pending future unchanged.
C23_NotUnmappedAborts ==
    [][\A mode \in Modes, offset \in MapOffsets, size \in MapSizes :
          (/\ state \in {"MappingPending", "Mapped", "MappedAtCreation", "Destroyed"}
           /\ IsMapAsyncCall
           /\ ~(size = None /\ offset >= BufSize))
          => \/ /\ last'.result = "rejected_Abort"
                /\ Len(scope_errors') = 1
                /\ sent' = <<>>
                /\ UNCHANGED <<state, map_info, map_promise, promises, inflight, views>>
             \/ ~MapAsyncStep(mode, offset, size)
      ]_vars

\* map_async was refused with one validation error on a Destroyed buffer
C23_Witness ==
    /\ state = "Destroyed"
    /\ last.op = "MapAsync"
    /\ last.result = "rejected_Abort"
    /\ Len(scope_errors) = 1
    /\ sent = <<>>

\* the outcome C24 describes: Abort-class rejection, one validation error,
\* no map request, state still Unmapped with no mapping region
C24_Outcome ==
    /\ last'.result = "rejected_Abort"
    /\ Len(scope_errors') = 1
    /\ sent' = <<>>
    /\ state' = "Unmapped"
    /\ map_info' = None
    /\ UNCHANGED <<map_promise, promises, inflight>>

\* C24: map_async on an Unmapped buffer with a mode that is not exactly Read
\* or exactly Write (0, Read|Write) rejects the future with an Abort-class
\* error, reports one validation error to the error scope of the device,
\* sends no map request and leaves the state Unmapped with no mapping region.
C24_InvalidModeAborts ==
    [][\A mode \in Modes, offset \in MapOffsets, size \in MapSizes :
          (/\ state = "Unmapped"
           /\ mode \notin {READ, WRITE}
           /\ IsMapAsyncCall
           /\ MapAsyncStep(mode, offset, size)) => C24_Outcome
      ]_vars

\* C24 amended: the same for a call that passes the offset guard (size given,
\* or offset < buffer size).
C24_InvalidModeAbortsPastOffsetGuard ==
    [][\A mode \in Modes, offset \in MapOffsets, size \in MapSizes :
          (/\ state = "Unmapped"
           /\ mode \notin {READ, WRITE}
           /\ IsMapAsyncCall
           /\ ~(size = None /\ offset >= BufSize))
          => (C24_Outcome \/ ~MapAsyncStep(mode, offset, size))
      ]_vars

\* map_async was refused for its mode on an Unmapped buffer
C24_Witness ==
    /\ state = "Unmapped"
    /\ last.op = "MapAsync"
    /\ last.result = "rejected_Abort"
    /\ scope_errors = <<"Invalid MapModeFlags">>

\* C25: map_async moves a buffer from Unmapped to MappingPending and sends a
\* map request only when the mode is valid, offset < buffer size and no other
\* map is pending, also when size is given: a call with offset >= buffer size
\* never creates a mapping region.
C25_AcceptedOnlyInsideBuffer ==
    [][\A mode \in Modes, offset \in MapOffsets, size \in MapSizes :
          (/\ IsMapAsyncCall
           /\ MapAsyncStep(mode, offset, size)
           /\ \/ state' = "MappingPending" /\ state # "MappingPending"
              \/ map_info' # map_info
              \/ \E i \in DOMAIN sent' : sent'[i].msg.type = "BufferMapAsync")
          => /\ state = "Unmapped"
             /\ mode \in {READ, WRITE}
             /\ offset < BufSize
             /\ map_promise = None
      ]_vars

\* C26: an accepted map_async(mode, offset, size) sends exactly one map
\* request carrying mode and range [offset, offset + size), size defaulting
\* to buffer size - offset; the state becomes MappingPending; the mapping
\* region has that mapping_range, empty bytes, no live views and the mode
\* recorded; the returned future is stored as the pending future and is left
\* unsettled.
C26_AcceptedMapAsync ==
    [][\A mode \in Modes, offset \in MapOffsets, size \in MapSizes :
          (/\ last'.result = "pending"
           /\ IsMapAsyncCall
           /\ MapAsyncStep(mode, offset, size))
          => LET sz    == IF size = None THEN BufSize - offset ELSE size[1]
                 range == [start |-> offset, end |-> offset + sz]
                 p     == last'.value
             IN /\ sent' = <<[msg |-> [type |-> "BufferMapAsync", sender |-> p,
                                       host_map |-> mode, map_range |-> range],
                              ok |-> TRUE]>>
                /\ state' = "MappingPending"
                /\ map_info' = Some([mapping |-> <<>>, mapping_range |-> range,
                                     mapped_ranges |-> <<>>, js_buffers |-> <<>>,
                                     map_mode |-> Some(mode)])
                /\ \A v \in DOMAIN views' : ~views'[v].attached
                /\ map_promise' = Some(p)
                /\ p \notin DOMAIN promises
                /\ promises'[p] = [status |-> "pending", error |-> "none", calls |-> 0]
                /\ [promise |-> p, range |-> range] \in inflight'
      ]_vars

\* a map_async over the second half of the buffer, size omitted, was accepted
C26_Witness ==
    /\ last.op = "MapAsync"
    /\ last.result = "pending"
    /\ state = "MappingPending"
    /\ map_info # None
    /\ map_info[1].mapping_range = [start |-> 8, end |-> BufSize]

\* a step that is a call of MapAsync whose map request could not be sent
MapRequestSendFailed ==
    /\ IsMapAsyncCall
    /\ \E i \in DOMAIN sent' :
          sent'[i].msg.type = "BufferMapAsync" /\ ~sent'[i].ok

C28_SuccessResponseMaps ==
    [][\A req \in inflight : \A response \in Responses(req) :
          (/\ state = "MappingPending"
           /\ response.ok
           /\ last'.op = "handle_response"
           /\ HandleResponseStep(req, response))
          => /\ map_info'[1].mapping = response.bytes
             /\ map_promise # None
             /\ promises'[map_promise[1]].status = "resolved"
             /\ state' = "Mapped"
             /\ map_promise' = None
             /\ map_info'[1].mapping_range = map_info[1].mapping_range
             /\ map_info'[1].map_mode = map_info[1].map_mode
      ]_vars

\* C29: every handled map response, success or failure, causes exactly one
\* MapCompleteNotify to be sent, after the future of the request has been
\* settled; a failure response rejects the future (with an Abort-class error
\* when nothing settled it before) and installs no bytes.
C29_EveryResponseNotifies ==
    [][\A req \in inflight : \A response \in Responses(req) :
          (/\ last'.op = "handle_response"
           /\ HandleResponseStep(req, response))
          => /\ Len(sent') = 1
             /\ sent'[1].msg.type = "BufferMapComplete"
             /\ promises'[req.promise].status # "pending"
             /\ ~response.ok
                => /\ promises'[req.promise].status = "rejected"
                   /\ promises[req.promise].status = "pending"
                      => promises'[req.promise].error = "Abort"
                   /\ map_info' = map_info
      ]_vars

\* the types of the messages of a call, in the order they were sent
SentTypes(msgs) == [i \in DOMAIN msgs |-> msgs[i].msg.type]

\* C30: dropping the buffer object in any reachable state runs destroy: it
\* completes without aborting, leaves the state Destroyed, and sends the
\* DestroyNotify if and only if the buffer was not already Destroyed,
\* preceded by an UnmapNotify if it was Mapped or MappedAtCreation; a failed
\* send does not abort it.
C30_DropDestroys ==
    [][(last'.op = "drop" /\ dropped') =>
          /\ ~panicked'
          /\ last'.result = "Ok"
          /\ state' = "Destroyed"
          /\ SentTypes(sent') =
                IF state = "Destroyed" THEN <<>>
                ELSE IF state \in MappedStates THEN <<"UnmapBuffer", "DestroyBuffer">>
                ELSE <<"DestroyBuffer">>
          /\ \A i \in DOMAIN sent' : sent'[i].ok = channel_ok
      ]_vars

\* a mapped buffer was dropped after the channel had closed: both sends
\* failed and the buffer is Destroyed
C30_Witness ==
    /\ dropped
    /\ last.op = "drop"
    /\ state = "Destroyed"
    /\ Len(sent) = 2
    /\ ~sent[1].ok
    /\ ~sent[2].ok
    /\ ~panicked

\* no future returned by map_async is pending
AllSettled == \A p \in DOMAIN promises : promises[p].status # "pending"

\* C31: when the response to every sent map request is eventually delivered
\* to the handler, every future returned by map_async is eventually resolved
\* or rejected, whatever unmap and destroy calls are interleaved.
C31_EveryFutureSettles ==
    <>[](inflight = {}) => <>[]AllSettled

\* C32: the live views of a buffer are empty in every reachable state whose
\* buffer state is MappingPending: the mapping region has no range handed
\* out and no array buffer, and no array buffer handed out earlier is still
\* attached.
C32_NoViewsWhilePending ==
    state = "MappingPending" =>
        /\ map_info # None
        /\ map_info[1].mapped_ranges = <<>>
        /\ map_info[1].js_buffers = <<>>
        /\ Attached = {}

\* get_mapped_range was called while a map is pending on a buffer that
\* handed out views during an earlier mapping
C32_Witness ==
    /\ state = "MappingPending"
    /\ last.op = "GetMappedRange"
    /\ last.result = "Err_Operation"
    /\ views # <<>>

\* C33: in every reachable state the buffer state is MappingPending if and
\* only if a pending map future is stored; in particular no buffer stays
\* MappingPending after its future has been settled by a failure response.
C33_PendingIffFutureStored ==
    (state = "MappingPending") <=> (map_promise # None)

\* a recorded range whose end is below its start
Inverted(range) == range.end < range.start

\* C34: the range end offset + size is computed without 64-bit wrap-around:
\* a map_async or get_mapped_range call whose offset + size exceeds the
\* largest 64-bit value is rejected with an error, and no mapping_range or
\* view whose end is below its start is ever recorded.
C34_NoWrapAround ==
    /\ [](map_info # None =>
            /\ ~Inverted(map_info[1].mapping_range)
            /\ \A i \in DOMAIN map_info[1].mapped_ranges :
                  ~Inverted(map_info[1].mapped_ranges[i]))
    /\ [][\A mode \in {READ, WRITE}, offset \in WideOffsets, size \in WideSizes :
            (/\ offset + size[1] >= GPUSize64Limit
             /\ IsMapAsyncCall
             /\ MapAsyncStep(mode, offset, size))
            => /\ last'.result \in {"rejected_Operation", "rejected_Abort"}
               /\ UNCHANGED <<state, map_info>>
         ]_vars
    /\ [][\A offset \in WideOffsets, size \in WideSizes :
            (/\ offset + size[1] >= GPUSize64Limit
             /\ state \in MappedStates
             /\ last'.op = "GetMappedRange"
             /\ GetMappedRangeStep(offset, size))
            => /\ last'.result = "Err_Operation"
               /\ UNCHANGED <<state, map_info, views>>
         ]_vars

(* ---- Performance ------------------------------------------------------- *)
\* C35: at any time at most one observer-notification task is queued: a task
\* is queued only while the pending flag is false, which is then set, and the
\* flag is cleared when the task runs, so the flag is true exactly while a
\* task is queued.
C35_OneNotificationTask ==
    /\ [](/\ notifications <= 1
          /\ pending_notification_observers_task <=> (notifications = 1))
    /\ [][(notifications' > notifications) =>
              (~pending_notification_observers_task /\
               pending_notification_observers_task')]_vars
    /\ [][(notifications' < notifications) =>
              ~pending_notification_observers_task']_vars

\* a second entry was queued while the task of the first was still pending
C35_Witness ==
    /\ notifications = 1
    /\ pending_notification_observers_task
    /\ Len(buffer) = 2
    /\ last = [op |-> "queue_entry", result |-> "None", value |-> 0]

\* a step that hands an entry to queue_entry
QueuesAnEntry == QueueResourceEntry \/ Mark \/ Measure

\* C36: clear_and_disable_performance_entry_buffer clears all buffered
\* entries and disables the buffer: after it the entry buffer is empty, and
\* a later queue_entry call, for an entry of any type, adds no entry.
C36_DisabledBufferStaysEmpty ==
    /\ [](last.op = "clear_and_disable_performance_entry_buffer" => buffer = <<>>)
    /\ [][(/\ last.op = "clear_and_disable_performance_entry_buffer"
           /\ QueuesAnEntry) => buffer' = <<>>]_vars

\* C37: while the size limit is not lowered,
\* resource_timing_buffer_current_size never exceeds the limit; a resource
\* entry queued when the count equals the limit goes to the secondary queue,
\* not to the primary buffer.
C37_CurrentSizeWithinLimit ==
    /\ [][(/\ resource_timing_buffer_current_size <= resource_timing_buffer_size_limit
           /\ resource_timing_buffer_size_limit' >= resource_timing_buffer_size_limit)
          => resource_timing_buffer_current_size' <= resource_timing_buffer_size_limit']_vars
    /\ [][(/\ resource_timing_buffer_current_size = resource_timing_buffer_size_limit
           /\ QueueResourceEntry)
          => /\ buffer' = buffer
             /\ resource_timing_buffer_current_size' =
                    resource_timing_buffer_current_size]_vars

\* the running call is inside fire_buffer_full_event
InFireBufferFullEvent ==
    frame.pc \in {"fire_buffer_full_event", "copy_secondary_resource_timing_buffer",
                  "queue_entry"}

\* C38: fire_buffer_full_event terminates whatever the resourcetimingbufferfull
\* handler does (nothing, ClearResourceTimings, or raising the limit), and on
\* return the secondary queue is empty and the pending-full-event flag false.
C38_FireBufferFullEventTerminates ==
    /\ [](frame.pc = "should_queue_resource_entry" =>
              /\ resource_timing_secondary_entries = <<>>
              /\ ~resource_timing_buffer_pending_full_event)
    /\ InFireBufferFullEvent ~> (frame.pc = "should_queue_resource_entry")

\* the entries of a list that are not among those removed
Without(entries, removed) ==
    LET Kept(e) == \A i \in DOMAIN removed : removed[i] # e
    IN SelectSeq(entries, Kept)

\* C39: clear_entries_by_name_and_type(name, type) removes exactly the entries
\* that get_entries_by_name_and_type(name, type) returns and keeps the others
\* in their order; ClearMarks(n) removes only the marks named n.
C39_ClearRemovesWhatGetReturns ==
    [][\A name \in OptionalNames :
          /\ ClearMarksStep(name) =>
                buffer' = Without(buffer,
                             get_entries_by_name_and_type(buffer, name, Some("mark")))
          /\ ClearMeasuresStep(name) =>
                buffer' = Without(buffer,
                             get_entries_by_name_and_type(buffer, name, Some("measure")))
      ]_vars

(* ---- CSSStyleSheet ----------------------------------------------------- *)
\* a step that is a call of one of the three rule list operations
RuleListCall == GetCssRules \/ InsertRule \/ DeleteRule

\* C40: GetCssRules, InsertRule and DeleteRule on a stylesheet whose
\* origin_clean flag is false return a Security error and neither create nor
\* modify the rule list; with the flag true they return no Security error.
C40_OriginCleanGuardsRuleList ==
    /\ [][(~origin_clean /\ RuleListCall) =>
              /\ last'.result = "Err_Security"
              /\ UNCHANGED <<rulelist, rules>>]_vars
    /\ [][(origin_clean /\ RuleListCall) => last'.result # "Err_Security"]_vars

\* a rule list operation was refused on a stylesheet that holds a rule and
\* whose rule list exists
C40_Witness ==
    /\ ~origin_clean
    /\ last.result = "Err_Security"
    /\ rulelist # None
    /\ rules # <<>>

====
